---- MODULE Spec2Model ----
(***************************************************************************)
(* Model of the Tron-disk scene components of bynickrich/portfolio:        *)
(*   - the mesh sampler (extractPositions, generateFallbackSphere,         *)
(*     samplePositions, normalizePositions) and the ParticleHead renderer  *)
(*     with its useModelPositions hook (components/TronDisk/shaders.ts),   *)
(*   - the material classification of GltfDisk (DiskFrame.tsx),            *)
(*   - the frame loop: the useFrame callbacks of DiskFrame, ParticleHead   *)
(*     and DustParticles (DustParticles.tsx).                              *)
(*                                                                         *)
(* Numbers.  Mesh vertices are integer triples.  A Float32Array of         *)
(* positions is a record [form, pts, den]:                                 *)
(*   form = "null"   no array (the hook's initial state, extract's null),  *)
(*   form = "xyz"    cartesian points pts[i] = <<x,y,z>> / den; den = 0    *)
(*                   with numerators 0 is 0 * Infinity = NaN,              *)
(*   form = "sphere" points of the Fibonacci sphere, kept in spherical     *)
(*                   form (radius and cos(phi) as exact fractions).        *)
(* Math.random() returns k / RandDen for k in 0 .. RandDen-1.              *)
(***************************************************************************)
EXTENDS Integers, Sequences, FiniteSets, TLC

VARIABLES
    props,        \* ParticleHead props: modelPath, particleCount, noiseScale, color
    positions,    \* useState in useModelPositions
    randoms,      \* useMemo([particleCount]): per-particle seeds
    uniforms,     \* useMemo([]): uTime, uNoiseScale, uColor
    mounted,      \* materialRef.current / pointsRef.current attached
    rotationY,    \* pointsRef.current.rotation.y, in units of 1e-5 rad
    pending,      \* passive effects scheduled by the last commit
    inflight,     \* loads started and not yet called back
    warnings,     \* console.warn calls, by kind
    renders,      \* number of re-renders with new props
    posSrc,       \* which branch of the hook produced `positions`
    call,         \* arguments of a function called on its own
    ret,          \* its result
    scene,        \* GltfDisk: the cached scene returned by useGLTF
    glowColor,    \* GltfDisk: prop
    processedScene, \* GltfDisk: useState
    diskPending,  \* GltfDisk: the effect scheduled by the last commit
    diskRuns,     \* GltfDisk: number of runs of the effect
    clock,        \* state.clock.elapsedTime of the canvas
    dust,         \* DustParticles: buffers (useMemo) and uniforms
    diskRotationY \* DiskFrame: groupRef.current.rotation.y, in units of 1e-5 rad

headVars == <<props, positions, randoms, uniforms, mounted, rotationY, pending,
              inflight, warnings, renders, posSrc>>
callVars == <<call, ret>>
diskVars == <<scene, glowColor, processedScene, diskPending, diskRuns>>
frameVars == <<clock, dust, diskRotationY>>
vars == <<props, positions, randoms, uniforms, mounted, rotationY, pending,
          inflight, warnings, renders, posSrc,
          call, ret, scene, glowColor, processedScene, diskPending, diskRuns,
          clock, dust, diskRotationY>>

----------------------------------------------------------------------------
(* Bounds of the model *)

MaxCount == 2
MaxVerts == 3
RandDen == 3
MaxRenders == 1
MaxTime == 1
MaxInput == 4
MaxTarget == 3
MaxFallback == 4
GridMax == 1
MaxNormLen == 2
DustCount == 1
MaxDiskRuns == 2

----------------------------------------------------------------------------
(* Helpers *)

Min2(a, b) == IF a <= b THEN a ELSE b
Max2(a, b) == IF a >= b THEN a ELSE b
MinOf(S) == CHOOSE m \in S : \A x \in S : m <= x
MaxOf(S) == CHOOSE m \in S : \A x \in S : m >= x
Last(s) == s[Len(s)]
\* Faulty variant: the load stays registered after its callback
RemoveAt_Keeps(s, i) == s

RemoveAt(s, i) == [j \in 1..(Len(s) - 1) |-> IF j < i THEN s[j] ELSE s[j + 1]]

\* Math.random(): the numerators k of k / RandDen
Rand == 0..(RandDen - 1)
\* n successive draws, as the renderer's loops make them: rnd[i] is the i-th.
\* The renderer's loops are run with all draws at one end of the range.
HeadRnd(n) == {[i \in 1..n |-> k] : k \in {0, RandDen - 1}}

NullArray == [form |-> "null", pts |-> <<>>, den |-> 1]
Xyz(pts) == [form |-> "xyz", pts |-> pts, den |-> 1]

----------------------------------------------------------------------------
(* Mesh sampler: shaders.ts, lines 185-295 *)

\* allPositions[idx * 3 .. idx * 3 + 2]: vertex idx (0-based) of a flat array
At(arr, idx) == arr[idx + 1]

\* Faulty variant: the world transform is not applied
applyMatrix4_Local(vec, matrixWorld) == vec

\* vec.applyMatrix4(child.matrixWorld); world matrices are translations here
applyMatrix4(vec, matrixWorld) ==
    <<vec[1] + matrixWorld[1], vec[2] + matrixWorld[2], vec[3] + matrixWorld[3]>>

\* object.traverse(...): the nodes in traversal order; each mesh with a position
\* attribute contributes its vertices in world space
RECURSIVE traverse(_)
traverse(children) ==
    IF children = <<>> THEN <<>>
    ELSE LET child == Head(children)
             own == IF child.isMesh /\ child.hasPosition
                    THEN [i \in 1..Len(child.array) |->
                             applyMatrix4(child.array[i], child.matrixWorld)]
                    ELSE <<>>
         IN  own \o traverse(Tail(children))

extractPositions(object) ==
    IF object.type = "BufferGeometry"
    THEN \* object.attributes.position?.array ?? null
         IF object.hasPosition THEN Xyz(object.array) ELSE NullArray
    ELSE LET positions_ == traverse(object.children)
         IN  IF Len(positions_) > 0 THEN Xyz(positions_) ELSE NullArray

\* r = 1.2 + (Math.random() - 0.5) * 0.3, as the fraction rNum / rDen
BaseRadius1000 == 1200
RadiusJitter1000 == 300
\* Faulty variant: a jitter of 0.5 instead of 0.3
RadiusNum_WideJitter(k) == 2 * BaseRadius1000 * RandDen + (2 * k - RandDen) * 500

RadiusNum(k) == 2 * BaseRadius1000 * RandDen + (2 * k - RandDen) * RadiusJitter1000
RadiusDen == 2 * 1000 * RandDen

\* Point i of the Fibonacci sphere: cos(phi) = 1 - 2 (i + 0.5) / count,
\* theta = PI (1 + sqrt 5) i, radius r.  rnd[i+1] is the i-th Math.random().
generateFallbackSphere(count, rnd) ==
    [form |-> "sphere",
     pts  |-> [j \in 1..count |->
                 [rNum |-> RadiusNum(rnd[j]), rDen |-> RadiusDen,
                  cosNum |-> count - (2 * (j - 1) + 1), cosDen |-> count,
                  thetaIdx |-> j - 1]],
     den  |-> 1]

\* idx = Math.min(Math.floor(i * step + Math.random() * step), totalVertices - 1)
\* with step = totalVertices / maxCount and Math.random() = k / RandDen
SampleIdx(totalVertices, maxCount, i, k) ==
    Min2(((i * RandDen + k) * totalVertices) \div (RandDen * maxCount),
         totalVertices - 1)

\* Faulty variant: the early return compares the flat array length, not the vertex count
samplePositions_FlatLength(allPositions, maxCount, rnd) ==
    LET totalVertices == Len(allPositions.pts)
    IN  IF 3 * totalVertices <= maxCount THEN allPositions
        ELSE [form |-> "xyz",
              pts  |-> [j \in 1..maxCount |->
                          At(allPositions.pts,
                             SampleIdx(totalVertices, maxCount, j - 1, rnd[j]))],
              den  |-> allPositions.den]

samplePositions(allPositions, maxCount, rnd) ==
    LET totalVertices == Len(allPositions.pts)
    IN  IF totalVertices <= maxCount THEN allPositions
        ELSE [form |-> "xyz",
              pts  |-> [j \in 1..maxCount |->
                          At(allPositions.pts,
                             SampleIdx(totalVertices, maxCount, j - 1, rnd[j]))],
              den  |-> allPositions.den]

\* targetRadius is given in tenths (13 = 1.3).  Output point i is
\* (p - c) * scale = (2p - min - max) * targetRadius10 / (10 * maxExtent).
DefaultTargetRadius10 == 13
Axis(pts, k) == {pts[i][k] : i \in 1..Len(pts)}
Extent(pts, k) == MaxOf(Axis(pts, k)) - MinOf(Axis(pts, k))
MaxExtent(pts) == Max2(Extent(pts, 1), Max2(Extent(pts, 2), Extent(pts, 3)))

normalizePositions(positions_, targetRadius10) ==
    LET pts == positions_.pts
        count == Len(pts)
        c2(k) == MinOf(Axis(pts, k)) + MaxOf(Axis(pts, k))
    IN  IF count = 0 THEN [form |-> "xyz", pts |-> <<>>, den |-> 1]
        ELSE [form |-> "xyz",
              pts  |-> [i \in 1..count |->
                          <<(2 * pts[i][1] - c2(1)) * targetRadius10,
                            (2 * pts[i][2] - c2(2)) * targetRadius10,
                            (2 * pts[i][3] - c2(3)) * targetRadius10>>],
              den  |-> 10 * MaxExtent(pts)]

----------------------------------------------------------------------------
(* Loader inputs: model paths and what a loader can hand to onLoad *)

\* A model path is the sequence of its dot-separated segments; <<>> is the
\* absent (undefined or empty) path.
NoPath == <<>>
ModelPaths == {NoPath, <<"head", "xyz">>, <<"head", "OBJ">>, <<"scan", "ply">>}

toLowerCase(str) ==
    CASE str = "OBJ" -> "obj"
      [] str = "PLY" -> "ply"
      [] str = "GLB" -> "glb"
      [] str = "GLTF" -> "gltf"
      [] OTHER -> str

\* modelPath.split(".").pop()?.toLowerCase()
Ext(modelPath) == toLowerCase(Last(modelPath))

\* Faulty variant: the default branch of the switch is missing
HasLoader_NoDefault(ext) == TRUE

\* the switch on ext: the cases that construct a loader
HasLoader(ext) == ext \in {"obj", "ply", "glb", "gltf"}

Curve(n) == [i \in 1..n |-> <<i - 1, (i - 1) * (i - 1), 0>>]
Coincident(n) == [i \in 1..n |-> <<1, 1, 1>>]
VertexArrays == {Curve(1), Curve(MaxVerts), Coincident(2)}

BufferGeometry(hasPosition, array) ==
    [type |-> "BufferGeometry", hasPosition |-> hasPosition, array |-> array,
     children |-> <<>>]
Node(isMesh, hasPosition, array, matrixWorld) ==
    [isMesh |-> isMesh, hasPosition |-> hasPosition, array |-> array,
     matrixWorld |-> matrixWorld]
Object3D(children) ==
    [type |-> "Object3D", hasPosition |-> FALSE, array |-> <<>>,
     children |-> children]
GroupNode == Node(FALSE, FALSE, <<>>, <<0, 0, 0>>)

\* PLYLoader hands a BufferGeometry to onLoad
PlyResults ==
    {BufferGeometry(FALSE, <<>>), BufferGeometry(TRUE, <<>>)}
    \cup {BufferGeometry(TRUE, a) : a \in VertexArrays}

\* OBJLoader hands a Group, GLTFLoader a { scene }: a scene graph
SceneResults ==
    {Object3D(<<GroupNode>>),
     Object3D(<<GroupNode, Node(TRUE, FALSE, <<>>, <<0, 0, 0>>)>>),
     Object3D(<<GroupNode, Node(TRUE, TRUE, Curve(1), <<0, 0, 0>>),
                Node(TRUE, TRUE, Curve(MaxVerts - 1), <<0, 0, 2>>)>>)}
    \cup {Object3D(<<GroupNode, Node(TRUE, TRUE, a, <<0, 0, 0>>)>>) :
             a \in {Curve(MaxVerts), Coincident(2)}}

LoaderResults(ext) == IF ext = "ply" THEN PlyResults ELSE SceneResults

----------------------------------------------------------------------------
(* ParticleHead and its useModelPositions hook: shaders.ts, lines 301-472 *)

ParticleCounts == {MaxCount - 1, MaxCount}
\* noiseScale = 0.015 (in thousandths) and color = "#6fdbff" are the defaults
DefaultNoiseScale == 15
DefaultColor == "#6fdbff"
NoiseScales == {DefaultNoiseScale, 30}
Colors == {DefaultColor, "#ff5500"}
PropsSet == [modelPath : ModelPaths, particleCount : ParticleCounts,
             noiseScale : NoiseScales, color : Colors]

\* rotationSpeed = 0.08, in hundredths; one frame adds rotationSpeed * 0.005
rotationSpeed100 == 8
RotationStep == rotationSpeed100 * 5

NoSrc == [why |-> "none", modelPath |-> NoPath, particleCount |-> 0, raw |-> NullArray]
Src(why, modelPath, particleCount, raw) ==
    [why |-> why, modelPath |-> modelPath, particleCount |-> particleCount, raw |-> raw]

\* setPositions(p) and the re-render it causes: <points> is committed with
\* materialRef and pointsRef attached (a Float32Array is truthy, even empty)
setPositions(p, src) ==
    /\ positions' = p
    /\ posSrc' = src
    /\ mounted' = TRUE

warn(kind) == warnings' = [warnings EXCEPT ![kind] = @ + 1]

\* Faulty variant: the effect clears the state before it starts a load
Load_ResetsPositions(modelPath, ext, particleCount) ==
    /\ inflight' = Append(inflight, [modelPath |-> modelPath, ext |-> ext,
                                     particleCount |-> particleCount])
    /\ positions' = NullArray
    /\ posSrc' = NoSrc
    /\ mounted' = FALSE
    /\ UNCHANGED warnings

\* loader.load(fullPath, onLoad, undefined, onError): the callbacks close over
\* ext and particleCount of the render that ran the effect
Load(modelPath, ext, particleCount) ==
    /\ inflight' = Append(inflight, [modelPath |-> modelPath, ext |-> ext,
                                     particleCount |-> particleCount])
    /\ UNCHANGED <<positions, posSrc, mounted, warnings>>

\* The body of the hook's useEffect
LoadEffect(modelPath, particleCount, rnd) ==
    IF modelPath = NoPath
    THEN /\ setPositions(generateFallbackSphere(particleCount, rnd),
                         Src("nopath", modelPath, particleCount, NullArray))
         /\ UNCHANGED <<inflight, warnings>>
    ELSE IF ~HasLoader(Ext(modelPath))
    THEN /\ warn("unsupported")
         /\ setPositions(generateFallbackSphere(particleCount, rnd),
                         Src("unsupported", modelPath, particleCount, NullArray))
         /\ UNCHANGED inflight
    ELSE Load(modelPath, Ext(modelPath), particleCount)

\* Faulty variant: the raw vertices are normalized without being sampled
LoadedPositions_NoSample(raw, particleCount, rnd) ==
    normalizePositions(raw, DefaultTargetRadius10)

\* normalizePositions(samplePositions(raw, particleCount))
LoadedPositions(raw, particleCount, rnd) ==
    normalizePositions(samplePositions(raw, particleCount, rnd), DefaultTargetRadius10)

\* The onLoad callback of load l
OnLoad(l, result, rnd) ==
    LET raw == extractPositions(result)
    IN  IF raw.form # "null" /\ Len(raw.pts) > 0
        THEN /\ setPositions(LoadedPositions(raw, l.particleCount, rnd),
                             Src("loaded", l.modelPath, l.particleCount, raw))
             /\ UNCHANGED warnings
        ELSE /\ warn("empty")
             /\ setPositions(generateFallbackSphere(l.particleCount, rnd),
                             Src("empty", l.modelPath, l.particleCount, NullArray))

\* Faulty variant: the error callback only logs
OnError_OnlyLogs(l, rnd) ==
    /\ warn("failed")
    /\ UNCHANGED <<positions, posSrc, mounted>>

\* The onError callback of load l
OnError(l, rnd) ==
    /\ warn("failed")
    /\ setPositions(generateFallbackSphere(l.particleCount, rnd),
                    Src("failed", l.modelPath, l.particleCount, NullArray))

\* useEffect([noiseScale, color]): writes the uniforms of the mounted material
UniformEffect ==
    IF mounted
    THEN uniforms' = [uniforms EXCEPT !.uNoiseScale = props.noiseScale,
                                      !.uColor = props.color]
    ELSE UNCHANGED uniforms

\* useMemo([particleCount]): particleCount seeds Math.random().  Only the
\* length of the array is ever read; one draw fills it.
Seeds(particleCount) == [i \in 1..particleCount |-> RandDen - 1]

HeadInit ==
    /\ props \in {p \in PropsSet : p.noiseScale = DefaultNoiseScale /\ p.color = DefaultColor}
    /\ positions = NullArray
    /\ randoms = Seeds(props.particleCount)
    /\ uniforms = [uTime |-> 0, uNoiseScale |-> props.noiseScale,
                   uColor |-> props.color]
    /\ mounted = FALSE
    /\ rotationY = 0
    /\ pending = {"load", "uniforms"}
    /\ inflight = <<>>
    /\ warnings = [unsupported |-> 0, empty |-> 0, failed |-> 0]
    /\ renders = 0
    /\ posSrc = NoSrc

\* React flushes the passive effects of a commit in hook order: first the
\* hook's load effect, then the uniform effect; the re-render asked for by
\* setPositions comes after both.
FlushEffects ==
    /\ pending # {}
    /\ \E rnd \in HeadRnd(props.particleCount) :
          IF "load" \in pending
          THEN LoadEffect(props.modelPath, props.particleCount, rnd)
          ELSE UNCHANGED <<positions, posSrc, mounted, inflight, warnings>>
    /\ IF "uniforms" \in pending THEN UniformEffect ELSE UNCHANGED uniforms
    /\ pending' = {}
    /\ UNCHANGED <<props, randoms, rotationY, renders>>
    /\ UNCHANGED <<callVars, diskVars, frameVars>>

\* The parent renders ParticleHead with one prop changed.  Pending passive
\* effects are flushed before a render starts.
Render ==
    /\ pending = {}
    /\ renders < MaxRenders
    /\ \E p \in PropsSet :
          /\ Cardinality({f \in DOMAIN p : p[f] # props[f]}) = 1
          /\ props' = p
          /\ IF p.particleCount # props.particleCount
             THEN randoms' = Seeds(p.particleCount)
             ELSE UNCHANGED randoms
          /\ pending' =
                (IF p.modelPath # props.modelPath \/ p.particleCount # props.particleCount
                 THEN {"load"} ELSE {})
                \cup
                (IF p.noiseScale # props.noiseScale \/ p.color # props.color
                 THEN {"uniforms"} ELSE {})
    /\ renders' = renders + 1
    /\ UNCHANGED <<positions, posSrc, mounted, uniforms, rotationY, inflight,
                   warnings>>
    /\ UNCHANGED <<callVars, diskVars, frameVars>>

LoadSuccess ==
    \E i \in 1..Len(inflight) :
      \E result \in LoaderResults(inflight[i].ext) :
        \E rnd \in HeadRnd(inflight[i].particleCount) :
          /\ inflight' = RemoveAt(inflight, i)
          /\ OnLoad(inflight[i], result, rnd)
          /\ UNCHANGED <<props, randoms, uniforms, rotationY, pending, renders>>
          /\ UNCHANGED <<callVars, diskVars, frameVars>>

LoadError ==
    \E i \in 1..Len(inflight) :
      \E rnd \in HeadRnd(inflight[i].particleCount) :
        /\ inflight' = RemoveAt(inflight, i)
        /\ OnError(inflight[i], rnd)
        /\ UNCHANGED <<props, randoms, uniforms, rotationY, pending, renders>>
        /\ UNCHANGED <<callVars, diskVars, frameVars>>

\* Faulty variant: the callback dereferences its refs without a test, and
\* fails when the head is not mounted
useFrame_NoRefTest(elapsed) ==
    /\ mounted
    /\ uniforms' = [uniforms EXCEPT !.uTime = elapsed]
    /\ rotationY' = rotationY + RotationStep

\* useFrame(({ clock }) => ...): elapsed is clock.getElapsedTime(), which only
\* grows.  Nothing is written while the material and the points are not
\* mounted (both refs are null).
useFrame(elapsed) ==
    /\ uniforms' = IF mounted THEN [uniforms EXCEPT !.uTime = elapsed] ELSE uniforms
    /\ rotationY' = IF mounted THEN rotationY + RotationStep ELSE rotationY

\* DustParticles (DustParticles.tsx): count points in a cube of side spread
DustSpread == 8
DustParticles(count, k) ==
    [positions |-> [i \in 1..count |->
                      [j \in 1..3 |-> (2 * k - RandDen) * DustSpread]],
     posDen |-> 2 * RandDen,
     randoms |-> [i \in 1..count |-> k],
     speeds |-> [i \in 1..count |-> RandDen + 3 * k],
     speedDen |-> 2 * RandDen,
     uniforms |-> [uTime |-> 0, uColor |-> DefaultColor]]

\* DiskFrame: rotationSpeed = 0.15, in hundredths
diskRotationSpeed100 == 15
DiskRotationStep == diskRotationSpeed100 * 5

\* The scene after its first commit: the clock started, dust and disk mounted.
\* Nothing reads the dust buffers again; one draw of Math.random() fills them.
FrameInit ==
    /\ clock = 0
    /\ dust = DustParticles(DustCount, RandDen - 1)
    /\ diskRotationY = 0

FrameIdle ==
    /\ clock = 0
    /\ dust = DustParticles(DustCount, 0)
    /\ diskRotationY = 0

\* clock.getElapsedTime() of THREE.Clock reads the timer on every call.
\* Times are in half units: frame n starts at time 2n, and a later call in
\* the same frame returns the same value or the next one.
FrameStart(elapsedTime) == 2 * ((elapsedTime \div 2) + 1)
getElapsedTime(since) == {since, since + 1}

\* Faulty variant: the rotation follows the clock
DiskFrame_useFrame_ByClock == diskRotationY' = diskRotationY + DiskRotationStep * FrameStart(clock)

\* DiskFrame's useFrame: the group is mounted from the first commit on
DiskFrame_useFrame == diskRotationY' = diskRotationY + DiskRotationStep

\* DustParticles' useFrame: the material is mounted from the first commit on
DustParticles_useFrame(elapsed) == dust' = [dust EXCEPT !.uniforms.uTime = elapsed]

\* One frame of the canvas: the useFrame callbacks run in the order in
\* which the components subscribed: DiskFrame, ParticleHead, DustParticles.
Tick ==
    /\ FrameStart(clock) <= 2 * MaxTime
    /\ \E t1 \in {FrameStart(clock)} :
          \E t2 \in getElapsedTime(t1) :
             /\ DiskFrame_useFrame
             /\ useFrame(t1)
             /\ DustParticles_useFrame(t2)
             /\ clock' = t2
    /\ UNCHANGED <<props, positions, posSrc, randoms, mounted, pending, inflight,
                   warnings, renders>>
    /\ UNCHANGED <<callVars, diskVars>>

CallIdle == call = [fn |-> "none"] /\ ret = [fn |-> "none"]
DiskIdle ==
    /\ scene = [isNull |-> TRUE]
    /\ glowColor = DefaultColor
    /\ processedScene = [isNull |-> TRUE]
    /\ diskPending = FALSE
    /\ diskRuns = 0

Init == HeadInit /\ CallIdle /\ DiskIdle /\ FrameInit

Next ==
    \/ FlushEffects
    \/ Render
    \/ LoadSuccess
    \/ LoadError
    \/ Tick

Spec == Init /\ [][Next]_vars

\* React runs every scheduled passive effect, and a loader calls back exactly
\* one of onLoad / onError for every load it was given.
LiveSpec == Spec /\ WF_vars(FlushEffects) /\ WF_vars(LoadSuccess \/ LoadError)

----------------------------------------------------------------------------
(* Claims about the head renderer *)

Ready == positions.form # "null"
Loading == positions.form = "null"

\* C1: under every configuration and every load outcome the renderer
\* eventually holds a non-null PointSet, and a started load never leaves it
\* in Loading for ever (each load calls back exactly once).
C1_EventuallyReady ==
    /\ <>Ready
    /\ (Loading /\ inflight # <<>>) ~> Ready

\* a load failed and the renderer is Ready with the fallback sphere
C1_Witness ==
    /\ posSrc.why = "failed"
    /\ positions.form = "sphere"
    /\ warnings.failed = 1

\* C2 as stated: once Ready, the PointSet (and its count) is never replaced,
\* whatever frame ticks, prop changes and load completions follow.
C2_PointSetNeverReplaced == [][Ready => positions' = positions]_vars

\* C2 amended: once Ready the renderer never returns to Loading, and the
\* PointSet changes only in a run of the load effect (scheduled by a change
\* of modelPath or particleCount) or in the callback of a load; frame ticks
\* and changes of noiseScale or color never replace it.
C2_ReplacedOnlyByLoadEffect ==
    [][/\ Ready => Ready'
       /\ positions' # positions =>
            \/ "load" \in pending /\ "load" \notin pending'
            \/ Len(inflight') < Len(inflight)]_vars

\* Ready, and afterwards a frame was drawn and noiseScale was changed
C2_Witness ==
    /\ Ready
    /\ uniforms.uTime > 0
    /\ props.noiseScale # DefaultNoiseScale
    /\ uniforms.uNoiseScale = props.noiseScale

Unloadable(modelPath) == modelPath = NoPath \/ ~(Ext(modelPath) \in {"obj", "ply", "glb", "gltf"})
IsFallbackOf(p, count) == p.form = "sphere" /\ Len(p.pts) = count

\* C3: with the model path absent or of an unsupported extension, no load is
\* ever started and the renderer is Ready with a fallback sphere of exactly
\* particleCount points once the effect has run, with one warning logged for
\* the unsupported extension; no failure is ever recorded.  The same holds for
\* every later run of the effect under such a path.
C3_InitialConfig ==
    (renders = 0 /\ Unloadable(props.modelPath)) =>
        /\ inflight = <<>>
        /\ warnings.failed = 0 /\ warnings.empty = 0
        /\ pending = {} =>
              /\ IsFallbackOf(positions, props.particleCount)
              /\ props.modelPath # NoPath => warnings.unsupported = 1

C3_EffectRun ==
    (Unloadable(props.modelPath) /\ "load" \in pending /\ "load" \notin pending') =>
        /\ inflight' = inflight
        /\ IsFallbackOf(positions', props.particleCount)
        /\ props.modelPath # NoPath =>
              warnings'.unsupported = warnings.unsupported + 1

C3_NoLoadFallbackReady == []C3_InitialConfig /\ [][C3_EffectRun]_vars

\* the ".xyz" path: effect run, warning logged, fallback sphere in place
C3_Witness ==
    /\ props.modelPath = <<"head", "xyz">>
    /\ renders = 0
    /\ pending = {}
    /\ IsFallbackOf(positions, props.particleCount)
    /\ warnings.unsupported = 1

\* largest coordinate of a vertex the loaders of the model hand over
MaxCoord == Max2((MaxVerts - 1) * (MaxVerts - 1), 2)

\* p is the image of the vertices src[idx[1]], src[idx[2]], ... under one
\* translation and one scale: p.pts[i] = (2 src[idx[i]] - c) * targetRadius10,
\* over the common denominator p.den
IsNormalizedImage(p, src, idx) ==
    \A k \in 1..3 :
        \E c \in 0..(2 * MaxCoord) :
            \A i \in 1..Len(p.pts) :
                p.pts[i][k] = (2 * src[idx[i]][k] - c) * DefaultTargetRadius10

\* C7: after a successful load of N > particleCount vertices the Ready
\* PointSet has exactly particleCount points, each the normalized image
\* (one translation, one scale) of a source vertex.
C7_SampledAndNormalized ==
    (posSrc.why = "loaded" /\ Len(posSrc.raw.pts) > posSrc.particleCount) =>
        /\ positions.form = "xyz"
        /\ Len(positions.pts) = posSrc.particleCount
        /\ \E idx \in [1..posSrc.particleCount -> 1..Len(posSrc.raw.pts)] :
              IsNormalizedImage(positions, posSrc.raw.pts, idx)

\* a mesh of more vertices than particleCount was loaded, with a finite scale
C7_Witness ==
    /\ posSrc.why = "loaded"
    /\ Len(posSrc.raw.pts) > posSrc.particleCount
    /\ posSrc.particleCount = MaxCount
    /\ positions.den > 0

\* C8: in every Ready state the seed array is as long as the PointSet, for
\* every load outcome (stated for the states in which the hook has settled:
\* no effect pending, no load in flight).
C8_SeedsAligned ==
    (Ready /\ pending = {} /\ inflight = <<>>) => Len(randoms) = Len(positions.pts)

\* C14: once the renderer is Ready and its effects have run, the drift-scale
\* and colour uniforms equal the latest noiseScale and color props, also when
\* these were changed while Loading.
C14_UniformsLatest ==
    (Ready /\ pending = {}) =>
        /\ uniforms.uNoiseScale = props.noiseScale
        /\ uniforms.uColor = props.color

\* C15: loads are started only by a run of the load effect, one per run, so
\* that a configuration that was never changed sees at most one load, failed
\* ones included; a callback that logs a failure consumes its load, sets the
\* fallback sphere and starts nothing.
C15_LoadsPerConfig ==
    Len(inflight) + warnings.failed + warnings.empty <= renders + 1
C15_Step ==
    /\ Len(inflight') <= Len(inflight) + 1
    /\ Len(inflight') > Len(inflight) => ("load" \in pending /\ "load" \notin pending')
    /\ (warnings'.failed + warnings'.empty # warnings.failed + warnings.empty) =>
          /\ Len(inflight') = Len(inflight) - 1
          /\ warnings'.failed + warnings'.empty = warnings.failed + warnings.empty + 1
          /\ positions'.form = "sphere"
    /\ Len(inflight') < Len(inflight) =>
          /\ Ready'
          /\ positions'.form = "sphere" =>
                warnings'.failed + warnings'.empty = warnings.failed + warnings.empty + 1
C15_NoRetry == []C15_LoadsPerConfig /\ [][C15_Step]_vars

\* the only load of the first configuration failed; none is in flight
C15_Witness ==
    /\ renders = 0
    /\ warnings.failed + warnings.empty = 1
    /\ inflight = <<>>
    /\ positions.form = "sphere"

\* C18: once every started load has called back, the PointSet is the one
\* derived from the latest modelPath and particleCount.
C18_LatestConfigWins ==
    (Ready /\ pending = {} /\ inflight = <<>>) =>
        /\ posSrc.modelPath = props.modelPath
        /\ posSrc.particleCount = props.particleCount

\* C19: the PointSet set after a successful load of at least one vertex has
\* only finite coordinates (the scale's divisor is not zero).
C19_FiniteCoordinates ==
    (posSrc.why = "loaded" /\ Len(posSrc.raw.pts) >= 1) => positions.den > 0

----------------------------------------------------------------------------
(* Claims about the frame loop *)

FrameDrawn == clock' # clock

\* C11: in every frame in which the head writes its time uniform, the head
\* and the dust field write the same elapsed time: after the frame, head
\* uTime equals dust uTime.
C11_SameTickValue ==
    [][(FrameDrawn /\ mounted) => uniforms'.uTime = dust'.uniforms.uTime]_vars

\* C12: while the head is Loading it renders nothing, a frame can always be
\* drawn (up to the bound on frames), and every frame drawn then advances
\* the disk's rotation and writes the dust field's time uniform.
C12_LoadingRendersNothing == Loading => ~mounted
C12_FrameNotBlocked == (Loading /\ FrameStart(clock) <= 2 * MaxTime) => ENABLED Tick
C12_FrameStep ==
    (Loading /\ FrameDrawn) =>
        /\ diskRotationY' = diskRotationY + DiskRotationStep
        /\ dust'.uniforms.uTime = clock'
        /\ dust'.uniforms.uTime > dust.uniforms.uTime
        /\ positions' = positions
C12_TicksWhileLoading ==
    /\ []C12_LoadingRendersNothing
    /\ []C12_FrameNotBlocked
    /\ [][C12_FrameStep]_vars

\* a frame was drawn while a load was in flight and the head still Loading
C12_Witness ==
    /\ Loading
    /\ inflight # <<>>
    /\ clock > 0
    /\ dust.uniforms.uTime = clock
    /\ diskRotationY = DiskRotationStep

\* C13: a frame writes only the time uniforms and adds the fixed increment
\* rotationSpeed * 0.005 to each mounted rotating node, whatever the clock
\* says; positions, seeds, speeds, drift scale and colours are left alone.
C13_FrameWrites ==
    FrameDrawn =>
        /\ diskRotationY' = diskRotationY + diskRotationSpeed100 * 5
        /\ rotationY' = rotationY + (IF mounted THEN rotationSpeed100 * 5 ELSE 0)
        /\ positions' = positions /\ randoms' = randoms
        /\ uniforms'.uNoiseScale = uniforms.uNoiseScale
        /\ uniforms'.uColor = uniforms.uColor
        /\ dust'.positions = dust.positions /\ dust'.randoms = dust.randoms
        /\ dust'.speeds = dust.speeds
        /\ dust'.uniforms.uColor = dust.uniforms.uColor
C13_TickWritesOnlyTime == [][C13_FrameWrites]_vars

\* a frame was drawn with the head mounted, after the clock had advanced
C13_Witness ==
    /\ mounted
    /\ rotationY = RotationStep
    /\ uniforms.uTime > 0
    /\ diskRotationY >= DiskRotationStep

----------------------------------------------------------------------------
(* The mesh sampler's functions called on their own: the arguments are drawn *)
(* by the initial state, the call is one step.                              *)

Grid == {<<x, y, z>> : x \in 0..GridMax, y \in 0..GridMax, z \in 0..GridMax}
GridSeqs == UNION {[1..n -> Grid] : n \in 0..MaxNormLen}
TargetRadii == {10, DefaultTargetRadius10}

NoCall == [fn |-> "none"]

SampleCalls ==
    {[fn |-> "samplePositions", allPositions |-> Xyz(Curve(n)), maxCount |-> m] :
        n \in 0..MaxInput, m \in 0..MaxTarget}
NormalizeCalls ==
    {[fn |-> "normalizePositions", positions |-> Xyz(pts), targetRadius10 |-> r] :
        pts \in GridSeqs, r \in TargetRadii}
FallbackCalls ==
    {[fn |-> "generateFallbackSphere", count |-> n] : n \in 0..MaxFallback}

\* sources for extractPositions: what the loaders hand over, and a scene
\* graph whose only mesh has a position attribute of no vertex
ExtractCalls ==
    {[fn |-> "extractPositions", object |-> o] :
        o \in PlyResults \cup SceneResults
              \cup {Object3D(<<GroupNode, Node(TRUE, TRUE, <<>>, <<0, 0, 2>>)>>)}}

HeadIdle ==
    /\ props = [modelPath |-> NoPath, particleCount |-> MaxCount,
                noiseScale |-> DefaultNoiseScale, color |-> DefaultColor]
    /\ positions = NullArray
    /\ randoms = [i \in 1..MaxCount |-> 0]
    /\ uniforms = [uTime |-> 0, uNoiseScale |-> DefaultNoiseScale,
                   uColor |-> DefaultColor]
    /\ mounted = FALSE
    /\ rotationY = 0
    /\ pending = {"load", "uniforms"}
    /\ inflight = <<>>
    /\ warnings = [unsupported |-> 0, empty |-> 0, failed |-> 0]
    /\ renders = 0
    /\ posSrc = NoSrc

CallInit ==
    /\ call \in SampleCalls \cup NormalizeCalls \cup FallbackCalls \cup ExtractCalls
    /\ ret = NoCall
    /\ HeadIdle
    /\ DiskIdle
    /\ FrameIdle

CallSample ==
    /\ call.fn = "samplePositions" /\ ret = NoCall
    /\ \E rnd \in [1..call.maxCount -> Rand] :
          ret' = [fn |-> call.fn, rnd |-> rnd,
                  value |-> samplePositions(call.allPositions, call.maxCount, rnd)]
    /\ UNCHANGED <<call, headVars, diskVars, frameVars>>

CallNormalize ==
    /\ call.fn = "normalizePositions" /\ ret = NoCall
    /\ ret' = [fn |-> call.fn, rnd |-> <<>>,
               value |-> normalizePositions(call.positions, call.targetRadius10)]
    /\ UNCHANGED <<call, headVars, diskVars, frameVars>>

CallFallback ==
    /\ call.fn = "generateFallbackSphere" /\ ret = NoCall
    /\ \E rnd \in [1..call.count -> Rand] :
          ret' = [fn |-> call.fn, rnd |-> rnd,
                  value |-> generateFallbackSphere(call.count, rnd)]
    /\ UNCHANGED <<call, headVars, diskVars, frameVars>>

CallExtract ==
    /\ call.fn = "extractPositions" /\ ret = NoCall
    /\ ret' = [fn |-> call.fn, rnd |-> <<>>, value |-> extractPositions(call.object)]
    /\ UNCHANGED <<call, headVars, diskVars, frameVars>>

CallNext == CallSample \/ CallNormalize \/ CallFallback \/ CallExtract

CallSpec == CallInit /\ [][CallNext]_vars

Sampled == ret.fn = "samplePositions"
SampleN == Len(call.allPositions.pts)

\* the 0-based index in the input of an output vertex (the inputs' vertices
\* are pairwise distinct)
SourceIndex(pt) ==
    CHOOSE i \in 0..(SampleN - 1) : call.allPositions.pts[i + 1] = pt

\* bucket i of the input, step = N / maxCount: the indices from
\* floor(i * step) up to, and not including, (i + 1) * step.  With a
\* fractional step this is the widest reading: neighbouring buckets share
\* the index floor((i + 1) * step).
InBucket(idx, i) ==
    /\ (i * SampleN) \div call.maxCount <= idx
    /\ idx * call.maxCount < (i + 1) * SampleN

\* C4: for N > maxCount, sample returns exactly maxCount points, the i-th
\* drawn from bucket i of the input, so that the chosen indices are pairwise
\* distinct, for every choice of the random offsets.
C4_OnePointPerBucket ==
    (Sampled /\ SampleN > call.maxCount) =>
        /\ Len(ret.value.pts) = call.maxCount
        /\ \A j \in 1..call.maxCount :
              InBucket(SourceIndex(ret.value.pts[j]), j - 1)
        /\ \A j1, j2 \in 1..call.maxCount :
              j1 # j2 => SourceIndex(ret.value.pts[j1]) # SourceIndex(ret.value.pts[j2])

\* C5: for N <= maxCount (N = maxCount and N = 0 included) sample returns
\* its input: same points, same order, same count.
C5_SampleIdentity ==
    (Sampled /\ SampleN <= call.maxCount) => ret.value = call.allPositions

\* sample was called with N = maxCount > 0
C5_Witness ==
    /\ Sampled
    /\ SampleN = call.maxCount
    /\ SampleN = MaxTarget
    /\ ret.value = call.allPositions

Normalized == ret.fn = "normalizePositions"

\* |pt / den| <= targetRadius10 / 10
WithinRadius(pt, den, targetRadius10) ==
    /\ den > 0
    /\ 100 * (pt[1] * pt[1] + pt[2] * pt[2] + pt[3] * pt[3])
          <= targetRadius10 * targetRadius10 * den * den

\* the bounding box of pts / den is centred on the origin
CentredBox(p) ==
    /\ p.den > 0
    /\ \A k \in 1..3 : MinOf(Axis(p.pts, k)) + MaxOf(Axis(p.pts, k)) = 0

\* C6: for every non-empty input and target radius R, every point of
\* normalize's output lies within distance R of the origin and the output's
\* bounding box is centred on the origin (stated for the inputs whose
\* bounding box has a positive extent).
C6_FitsSphere ==
    (Normalized /\ Len(call.positions.pts) > 0 /\ MaxExtent(call.positions.pts) > 0) =>
        /\ \A i \in 1..Len(ret.value.pts) :
              WithinRadius(ret.value.pts[i], ret.value.den, call.targetRadius10)
        /\ CentredBox(ret.value)

FellBack == ret.fn = "generateFallbackSphere"

\* phi = acos(cosNum / cosDen) is a real angle
RealAngle(pt) == pt.cosDen > 0 /\ -pt.cosDen <= pt.cosNum /\ pt.cosNum <= pt.cosDen

\* With phi real the point r (sin phi cos theta, sin phi sin theta, cos phi)
\* is at distance r = rNum / rDen from the origin.
\* C9: fallback(count) returns exactly count points, each at a distance
\* within [0.85 base, 1.15 base] of the origin, base = 1.2, for every value
\* of the random perturbation.
C9_FallbackShell ==
    FellBack =>
        /\ Len(ret.value.pts) = call.count
        /\ \A i \in 1..Len(ret.value.pts) :
              LET pt == ret.value.pts[i]
              IN  /\ RealAngle(pt)
                  /\ 85 * BaseRadius1000 * pt.rDen <= 100 * 1000 * pt.rNum
                  /\ 100 * 1000 * pt.rNum <= 115 * BaseRadius1000 * pt.rDen

\* a sphere of the largest count, drawn with both ends of the random range
C9_Witness ==
    /\ FellBack
    /\ call.count = MaxFallback
    /\ \E i, j \in 1..MaxFallback : ret.rnd[i] = 0 /\ ret.rnd[j] = RandDen - 1

Extracted == ret.fn = "extractPositions"
IsGeometry(object) == object.type = "BufferGeometry"

\* the number of vertices child c of a scene graph holds in a position attribute
Contribution(child) ==
    IF child.isMesh /\ child.hasPosition THEN Len(child.array) ELSE 0

\* the number of vertices held by the children before child c
RECURSIVE Offset(_, _)
Offset(children, c) ==
    IF c = 1 THEN 0
    ELSE Offset(children, c - 1) + Contribution(children[c - 1])

\* out holds the vertices of every mesh, in world space, in traversal order
IsConcatenation(out, children) ==
    /\ Len(out) = Offset(children, Len(children) + 1)
    /\ \A c \in 1..Len(children) :
          \A i \in 1..Contribution(children[c]) :
             \A k \in 1..3 :
                out[Offset(children, c) + i][k] =
                    children[c].array[i][k] + children[c].matrixWorld[k]

\* the source holds no vertex position
NoPositionData(object) ==
    IF IsGeometry(object)
    THEN ~object.hasPosition \/ Len(object.array) = 0
    ELSE Offset(object.children, Len(object.children) + 1) = 0

\* what extractPositions returns when the source holds position data
ExtractsAll(object, value) ==
    /\ value.form = "xyz" /\ value.den = 1
    /\ IF IsGeometry(object)
       THEN value.pts = object.array
       ELSE IsConcatenation(value.pts, object.children)

\* C16 as stated: extractPositions returns null whenever the source holds no
\* position data (a scene graph without mesh positions, a flat geometry
\* without position attribute or with zero vertices), and otherwise the
\* positions of every mesh concatenated in traversal order.
C16_NullWithoutPositions ==
    Extracted =>
        IF NoPositionData(call.object)
        THEN ret.value = NullArray
        ELSE ExtractsAll(call.object, ret.value)

\* C16 amended: extractPositions returns null for a flat geometry without
\* position attribute and for a scene graph whose meshes hold no vertex; for
\* a flat geometry with a position attribute it returns that attribute's
\* array, which is empty (not null) when the attribute holds zero vertices;
\* otherwise it returns the vertices of every mesh, in world space,
\* concatenated in traversal order.
C16_NullOrAttributeArray ==
    Extracted =>
        IF IsGeometry(call.object)
        THEN IF call.object.hasPosition
             THEN ExtractsAll(call.object, ret.value)
             ELSE ret.value = NullArray
        ELSE IF NoPositionData(call.object)
             THEN ret.value = NullArray
             ELSE ExtractsAll(call.object, ret.value)

\* a scene graph of two meshes, the second one translated, was extracted
C16_Witness ==
    /\ Extracted
    /\ ~IsGeometry(call.object)
    /\ Len(call.object.children) = 3
    /\ Len(ret.value.pts) = MaxVerts

----------------------------------------------------------------------------
(* GltfDisk: DiskFrame.tsx, lines 42-130 *)

\* Colour channels are in hundredths.  new THREE.Color(str), by the bytes of str
Color(str) ==
    CASE str = "#6fdbff" -> <<44, 86, 100>>
      [] str = "#ff5500" -> <<100, 33, 0>>
      [] str = "#0a0a12" -> <<4, 4, 7>>
      [] OTHER -> <<0, 0, 0>>

FrontSide == "FrontSide"
DoubleSide == "DoubleSide"

\* A material of the loaded model.  hasColor, hasEmissive and hasSide say
\* whether the property is defined on it.
Material(hasColor, color, hasEmissive, emissive, opacity, hasSide) ==
    [type |-> "Original", hasColor |-> hasColor, color |-> color,
     hasEmissive |-> hasEmissive, emissive |-> emissive,
     transparent |-> FALSE, opacity |-> opacity,
     hasSide |-> hasSide, side |-> DoubleSide]

ModelColors == {<<0, 0, 0>>, <<100, 100, 100>>, <<100, 0, 0>>, <<0, 100, 0>>, <<30, 30, 30>>}
ModelEmissives == {<<0, 0, 0>>, <<10, 0, 0>>, <<10, 10, 0>>, <<100, 100, 100>>}
ModelMaterials ==
    {Material(TRUE, c, TRUE, e, o, TRUE) :
        c \in ModelColors, e \in ModelEmissives, o \in {100, 50}}
    \cup {Material(TRUE, c, FALSE, <<0, 0, 0>>, 100, TRUE) : c \in ModelColors}
    \cup {Material(FALSE, <<0, 0, 0>>, FALSE, <<0, 0, 0>>, 100, FALSE)}

\* A node of the scene graph, in traversal order.  isArray: child.material is
\* an array of materials; otherwise material holds the single one.
SceneNode(isMesh, isArray, material) ==
    [isMesh |-> isMesh, isArray |-> isArray, material |-> material]
DiskGroup == SceneNode(FALSE, FALSE, <<>>)

WhiteMat == Material(TRUE, <<100, 100, 100>>, TRUE, <<0, 0, 0>>, 100, TRUE)
BlackMat == Material(TRUE, <<0, 0, 0>>, FALSE, <<0, 0, 0>>, 100, TRUE)
LitDarkMat == Material(TRUE, <<30, 30, 30>>, TRUE, <<10, 10, 0>>, 50, TRUE)

Boxes == {[min |-> <<0, 0, 0>>, max |-> <<2, 2, 2>>],
          [min |-> <<-4, 0, -4>>, max |-> <<4, 1, 4>>]}

Scene(box, children) ==
    [isNull |-> FALSE, box |-> box, children |-> children,
     scale |-> [num |-> 1, den |-> 1],
     position |-> [num |-> <<0, 0, 0>>, den |-> 1]]

DiskScenes ==
    {Scene(b, <<DiskGroup, SceneNode(TRUE, FALSE, <<m>>)>>) :
        b \in Boxes, m \in ModelMaterials}
    \cup {Scene(b, <<SceneNode(TRUE, TRUE, <<m, LitDarkMat>>),
                     SceneNode(TRUE, TRUE, <<BlackMat>>),
                     SceneNode(TRUE, FALSE, <<WhiteMat>>)>>) :
             b \in Boxes, m \in {WhiteMat, BlackMat}}

GlowColors == {"#6fdbff", "#ff5500"}

\* luminance = color.r * 0.299 + color.g * 0.587 + color.b * 0.114, times 100000,
\* of oldMat.color ?? new THREE.Color(0x000000)
Luminance(oldMat) ==
    LET color == IF oldMat.hasColor THEN oldMat.color ELSE <<0, 0, 0>>
    IN  color[1] * 299 + color[2] * 587 + color[3] * 114

\* oldMat.emissive && (emissive.r + emissive.g + emissive.b) > 0.1
HasEmissive(oldMat) ==
    oldMat.hasEmissive /\ oldMat.emissive[1] + oldMat.emissive[2] + oldMat.emissive[3] > 10

\* Faulty variant: both tests are required
IsGlowEdge_Both(oldMat) == Luminance(oldMat) > 50000 /\ HasEmissive(oldMat)

\* luminance > 0.5 || hasEmissive
IsGlowEdge(oldMat) == Luminance(oldMat) > 50000 \/ HasEmissive(oldMat)

\* The material a mesh of the clone gets in place of oldMat
Retexture(oldMat, glowColorObj) ==
    IF IsGlowEdge(oldMat)
    THEN [type |-> "MeshBasicMaterial", hasColor |-> TRUE, color |-> glowColorObj,
          hasEmissive |-> FALSE, emissive |-> <<0, 0, 0>>, hasSide |-> TRUE,
          transparent |-> (oldMat.transparent \/ oldMat.opacity < 100),
          opacity |-> oldMat.opacity,
          side |-> IF oldMat.hasSide THEN oldMat.side ELSE FrontSide]
    ELSE [type |-> "MeshStandardMaterial", hasColor |-> TRUE,
          color |-> Color("#0a0a12"), metalness |-> 90, roughness |-> 20,
          hasEmissive |-> TRUE, emissive |-> glowColorObj, emissiveIntensity |-> 2,
          hasSide |-> TRUE,
          transparent |-> (oldMat.transparent \/ oldMat.opacity < 100),
          opacity |-> Min2(oldMat.opacity, 95),
          side |-> IF oldMat.hasSide THEN oldMat.side ELSE FrontSide]

\* cloned.traverse(...): meshes get new materials; a one-element array is
\* unwrapped
RetextureNode(child, glowColorObj) ==
    IF ~child.isMesh THEN child
    ELSE [child EXCEPT
            !.material = [j \in 1..Len(child.material) |->
                            Retexture(child.material[j], glowColorObj)],
            !.isArray = (Len(child.material) # 1)]

\* Objects have identity.  The cached scene as a heap: object 1 is the root,
\* which names its children; objects 2, 3, ... are the children.
Cache(root) ==
    <<[root EXCEPT !.children = [i \in 1..Len(root.children) |-> i + 1]]>>
    \o root.children

\* the scene graph under object id, as a value
Deref(heap, id) ==
    [heap[id] EXCEPT
        !.children = [i \in 1..Len(heap[id].children) |-> heap[heap[id].children[i]]]]

\* Faulty variant: no copy is made
clone_SameObject(heap, id) == [heap |-> heap, id |-> id]

\* Faulty variant: clone(false) with the children attached, not copied
clone_SharedChildren(heap, id) ==
    [heap |-> Append(heap, heap[id]), id |-> Len(heap) + 1]

\* scene.clone(true): a new root and, recursively, new children; the
\* children's materials are shared with the original's, by reference
clone(heap, id) ==
    LET n == Len(heap)
        kids == heap[id].children
    IN  [heap |-> heap
                  \o <<[heap[id] EXCEPT !.children = [i \in 1..Len(kids) |-> n + 1 + i]]>>
                  \o [i \in 1..Len(kids) |-> heap[kids[i]]],
         id |-> n + 1]

\* The body of the effect: clone, rescale to 4 units, recentre, retexture.
\* The result is the heap after the effect and the clone's identity.
ProcessedClone(heap, source, color) ==
    LET made == clone(heap, source)
        cloned == made.id
        box == made.heap[cloned].box
        size == [k \in 1..3 |-> box.max[k] - box.min[k]]
        maxDim == Max2(size[1], Max2(size[2], size[3]))
        scaled == [made.heap EXCEPT
                     ![cloned].scale = [num |-> 4, den |-> maxDim],
                     ![cloned].position =
                         [num |-> [k \in 1..3 |-> -2 * (box.min[k] + box.max[k])],
                          den |-> maxDim]]
        kids == {scaled[cloned].children[i] : i \in 1..Len(scaled[cloned].children)}
    IN  [heap |-> [o \in 1..Len(scaled) |->
                     IF o \in kids THEN RetextureNode(scaled[o], Color(color))
                     ELSE scaled[o]],
         id |-> cloned]

DiskInit ==
    /\ scene \in DiskScenes
    /\ glowColor \in GlowColors
    /\ processedScene = [isNull |-> TRUE]
    /\ diskPending = TRUE
    /\ diskRuns = 0
    /\ HeadIdle
    /\ CallIdle
    /\ FrameIdle

\* useEffect([scene, glowColor]): the cached scene is object 1 of the heap
ProcessScene ==
    /\ diskPending
    /\ LET done == ProcessedClone(Cache(scene), 1, glowColor)
       IN  /\ processedScene' = Deref(done.heap, done.id)
           /\ scene' = Deref(done.heap, 1)
    /\ diskPending' = FALSE
    /\ diskRuns' = diskRuns + 1
    /\ UNCHANGED <<glowColor, headVars, callVars, frameVars>>

\* DiskFrame is rendered with another glowColor
SetGlowColor ==
    /\ ~diskPending
    /\ diskRuns < MaxDiskRuns
    /\ \E c \in GlowColors \ {glowColor} : glowColor' = c
    /\ diskPending' = TRUE
    /\ UNCHANGED <<scene, processedScene, diskRuns, headVars, callVars, frameVars>>

DiskNext == ProcessScene \/ SetGlowColor

DiskSpec == DiskInit /\ [][DiskNext]_vars

\* the role of a material of the processed clone
Role(mat) ==
    IF mat.type = "MeshBasicMaterial" THEN "glow"
    ELSE IF mat.type = "MeshStandardMaterial" THEN "body"
    ELSE "none"

\* the role the rule gives a material of the model: glow if
\* 0.299 r + 0.587 g + 0.114 b > 0.5 or the emissive channels sum to more
\* than 0.1, body otherwise
RuleRole(oldMat) ==
    LET rgb == IF oldMat.hasColor THEN oldMat.color ELSE <<0, 0, 0>>
        em == IF oldMat.hasEmissive THEN oldMat.emissive ELSE <<0, 0, 0>>
    IN  IF 299 * rgb[1] + 587 * rgb[2] + 114 * rgb[3] > 50000
           \/ em[1] + em[2] + em[3] > 10
        THEN "glow" ELSE "body"

MeshMaterials ==
    {<<i, j>> \in (1..Len(scene.children)) \X (1..2) :
        scene.children[i].isMesh /\ j <= Len(scene.children[i].material)}

\* C10: every sub-mesh material of the processed disk model has exactly one
\* of the two roles, the one the rule gives its original material; white is
\* glow, black without emissive is body, and a dark material with emissive
\* sum > 0.1 is glow.
C10_Classified ==
    ~processedScene.isNull =>
        /\ Len(processedScene.children) = Len(scene.children)
        /\ \A ij \in MeshMaterials :
              LET oldMat == scene.children[ij[1]].material[ij[2]]
                  newMat == processedScene.children[ij[1]].material[ij[2]]
              IN  /\ Role(newMat) = RuleRole(oldMat)
                  /\ oldMat = WhiteMat => Role(newMat) = "glow"
                  /\ oldMat = BlackMat => Role(newMat) = "body"
                  /\ oldMat = LitDarkMat => Role(newMat) = "glow"

\* a processed model holding a white, a black and a dark emissive material
C10_Witness ==
    /\ ~processedScene.isNull
    /\ \E ij \in MeshMaterials :
          /\ scene.children[ij[1]].material[ij[2]] = LitDarkMat
          /\ Role(processedScene.children[ij[1]].material[ij[2]]) = "glow"
    /\ \E ij \in MeshMaterials :
          /\ scene.children[ij[1]].material[ij[2]] = BlackMat
          /\ Role(processedScene.children[ij[1]].material[ij[2]]) = "body"
    /\ \E ij \in MeshMaterials :
          /\ scene.children[ij[1]].material[ij[2]] = WhiteMat
          /\ Role(processedScene.children[ij[1]].material[ij[2]]) = "glow"

\* the roles of the materials of a processed model, by sub-mesh
Roles(model) ==
    [i \in 1..Len(model.children) |->
        [j \in 1..Len(model.children[i].material) |->
            Role(model.children[i].material[j])]]

\* C17: no run of the effect changes the cached scene: its scale, its
\* position and its sub-meshes' materials stay as loaded.
C17_CacheUntouched == [][scene' = scene]_vars

\* the effect ran twice; the clone is rescaled and retextured, the cached
\* scene is not
C17_Witness ==
    /\ diskRuns = 2
    /\ processedScene.scale # scene.scale
    /\ processedScene.children # scene.children
    /\ scene \in DiskScenes

\* C20: every run of the effect gives each sub-mesh the role the run
\* before gave it, whatever glow colours the runs applied.
C20_RolesStable ==
    [][(~processedScene.isNull) => Roles(processedScene') = Roles(processedScene)]_vars

\* two runs with two glow colours over a model with a body material, whose
\* emissive tint of the second run would classify as glow
C20_Witness ==
    /\ diskRuns = 2
    /\ \E ij \in MeshMaterials :
          LET mat == processedScene.children[ij[1]].material[ij[2]]
          IN  /\ Role(mat) = "body"
              /\ mat.emissive = Color(glowColor)
              /\ HasEmissive(mat)

====
